---- MODULE Spec2Model ----
(***************************************************************************)
(* Model of scripts/registry/fix-registry.py: a one-shot maintenance       *)
(* script that loads registry.json, removes dead context entries, appends  *)
(* entries for split files that exist on disk, rewrites dependency         *)
(* strings, and saves the registry back.                                   *)
(*                                                                         *)
(* JSON objects are functions from key strings to values (a missing key    *)
(* is a key outside the DOMAIN), JSON arrays are sequences, JSON strings   *)
(* are strings.  str.replace works on the characters of the real strings.  *)
(***************************************************************************)
EXTENDS Integers, Sequences, FiniteSets, TLC

VARIABLES
  disk,      \* registry.json: [state |-> "ok"|"missing"|"malformed", doc |-> JSON document]
  files,     \* the candidate paths that exist under REPO_ROOT
  registry,  \* main's local variable `registry`
  pc,        \* position in main()
  failed,    \* the step whose exception ended the run ("none" while running)
  writes,    \* how often this run opened registry.json for writing
  run,       \* number of the current invocation of the script
  disk0,     \* history: disk at the start of the current run
  input,     \* history: the registry as loaded by the current run
  pre,       \* history: the registry before the most recent fix step
  prevDisk   \* history: disk at the end of the previous completed run

vars == <<disk, files, registry, pc, failed, writes, run, disk0, input, pre, prevDisk>>

(***************************************************************************)
(* Bounds of the model.                                                    *)
(***************************************************************************)
\* Most entries (contexts and agents together) of an input registry.
MaxEntries == 4
\* Most invocations of the script in a behaviour.
MaxRuns == 2

(***************************************************************************)
(* Python dict / list helpers.                                             *)
(***************************************************************************)
Range(s) == {s[i] : i \in 1..Len(s)}

\* d.get(k, default)
Get(d, k, default) == IF k \in DOMAIN d THEN d[k] ELSE default

\* d[k] = v
SetKey(d, k, v) == [x \in (DOMAIN d) \cup {k} |-> IF x = k THEN v ELSE d[x]]

(***************************************************************************)
(* str.replace(old, new) for a non-empty `old` (every call site passes a   *)
(* non-empty literal): scan left to right, replace each leftmost           *)
(* occurrence and continue after it (occurrences never overlap).           *)
(***************************************************************************)
\* Mutant: only whole-string matches are replaced (exact-token rewriting).
str_replace_exact(s, old, new) == IF s = old THEN new ELSE s

RECURSIVE str_replace(_, _, _)
str_replace(s, old, new) ==
  IF Len(s) < Len(old) THEN s
  ELSE IF SubSeq(s, 1, Len(old)) = old
       THEN new \o str_replace(SubSeq(s, Len(old) + 1, Len(s)), old, new)
       ELSE SubSeq(s, 1, 1) \o str_replace(SubSeq(s, 2, Len(s)), old, new)

(***************************************************************************)
(* remove_dead_references                                                  *)
(***************************************************************************)
dead_entries ==
  << "workflows-delegation", "design-iteration", "design-assets",
     "animation-patterns", "adding-agent", "adding-skill",
     "navigation-design", "claude-agent-skills", "claude-create-subagents",
     "claude-hooks", "claude-plugins", "external-libraries", "navigation" >>

\* A step's outcome: ok = FALSE when it raised; reg is the registry object
\* as the step left it (steps mutate the object in place).
Outcome(ok, reg) == [ok |-> ok, reg |-> reg]

\* Mutant: the filter stops at the first dead entry it drops.
RECURSIVE DropFirstDead(_)
DropFirstDead(s) ==
  IF s = <<>> THEN <<>>
  ELSE IF Head(s).id \in Range(dead_entries) THEN Tail(s)
       ELSE <<Head(s)>> \o DropFirstDead(Tail(s))

remove_dead_references_first_only(reg) ==
  LET comps == reg.components IN
  IF "contexts" \notin DOMAIN comps THEN Outcome(TRUE, reg)
  ELSE IF \E i \in 1..Len(comps.contexts) : "id" \notin DOMAIN comps.contexts[i]
       THEN Outcome(FALSE, reg)
       ELSE Outcome(TRUE, SetKey(reg, "components",
                      SetKey(comps, "contexts", DropFirstDead(comps.contexts))))

remove_dead_references(reg) ==
  LET comps == reg.components IN
  IF "contexts" \notin DOMAIN comps THEN Outcome(TRUE, reg)
  ELSE IF \E i \in 1..Len(comps.contexts) : "id" \notin DOMAIN comps.contexts[i]
       THEN Outcome(FALSE, reg)    \* c['id'] raises KeyError before the assignment
       ELSE Outcome(TRUE, SetKey(reg, "components",
                      SetKey(comps, "contexts",
                        SelectSeq(comps.contexts,
                                  LAMBDA c : c.id \notin Range(dead_entries)))))

(***************************************************************************)
(* add_split_file_entries                                                  *)
(***************************************************************************)
new_entries ==
  <<
    [id |-> "task-delegation-basics",
     name |-> "Task Delegation Basics",
     type |-> "context",
     path |-> ".opencode/context/core/workflows/task-delegation-basics.md",
     description |-> "Task delegation fundamentals and basic usage patterns",
     tags |-> <<"workflows", "delegation">>,
     dependencies |-> <<>>,
     category |-> "standard"],
    [id |-> "task-delegation-specialists",
     name |-> "Task Delegation Specialists",
     type |-> "context",
     path |-> ".opencode/context/core/workflows/task-delegation-specialists.md",
     description |-> "Specialist subagents for task delegation workflows",
     tags |-> <<"workflows", "delegation", "subagents">>,
     dependencies |-> <<>>,
     category |-> "standard"],
    [id |-> "task-delegation-caching",
     name |-> "Task Delegation Caching",
     type |-> "context",
     path |-> ".opencode/context/core/workflows/task-delegation-caching.md",
     description |-> "Caching strategies for task delegation workflows",
     tags |-> <<"workflows", "delegation", "caching">>,
     dependencies |-> <<>>,
     category |-> "standard"],
    [id |-> "design-iteration-overview",
     name |-> "Design Iteration Overview",
     type |-> "context",
     path |-> ".opencode/context/core/workflows/design-iteration-overview.md",
     description |-> "Overview of the design iteration workflow process",
     tags |-> <<"workflows", "design", "iteration">>,
     dependencies |-> <<>>,
     category |-> "standard"],
    [id |-> "design-iteration-plan-file",
     name |-> "Design Iteration Plan File",
     type |-> "context",
     path |-> ".opencode/context/core/workflows/design-iteration-plan-file.md",
     description |-> "Structure and format for design iteration plan files",
     tags |-> <<"workflows", "design", "planning">>,
     dependencies |-> <<>>,
     category |-> "standard"],
    [id |-> "design-iteration-plan-iterations",
     name |-> "Design Iteration Plan Iterations",
     type |-> "context",
     path |-> ".opencode/context/core/workflows/design-iteration-plan-iterations.md",
     description |-> "Planning iterations in the design workflow",
     tags |-> <<"workflows", "design", "planning">>,
     dependencies |-> <<>>,
     category |-> "standard"],
    [id |-> "design-iteration-stage-layout",
     name |-> "Design Iteration Stage - Layout",
     type |-> "context",
     path |-> ".opencode/context/core/workflows/design-iteration-stage-layout.md",
     description |-> "Layout stage guidelines for design iteration",
     tags |-> <<"workflows", "design", "layout">>,
     dependencies |-> <<>>,
     category |-> "standard"],
    [id |-> "design-iteration-stage-theme",
     name |-> "Design Iteration Stage - Theme",
     type |-> "context",
     path |-> ".opencode/context/core/workflows/design-iteration-stage-theme.md",
     description |-> "Theme stage guidelines for design iteration",
     tags |-> <<"workflows", "design", "theme">>,
     dependencies |-> <<>>,
     category |-> "standard"],
    [id |-> "design-iteration-stage-implementation",
     name |-> "Design Iteration Stage - Implementation",
     type |-> "context",
     path |-> ".opencode/context/core/workflows/design-iteration-stage-implementation.md",
     description |-> "Implementation stage guidelines for design iteration",
     tags |-> <<"workflows", "design", "implementation">>,
     dependencies |-> <<>>,
     category |-> "standard"],
    [id |-> "design-iteration-stage-animation",
     name |-> "Design Iteration Stage - Animation",
     type |-> "context",
     path |-> ".opencode/context/core/workflows/design-iteration-stage-animation.md",
     description |-> "Animation stage guidelines for design iteration",
     tags |-> <<"workflows", "design", "animation">>,
     dependencies |-> <<>>,
     category |-> "standard"],
    [id |-> "design-iteration-visual-content",
     name |-> "Design Iteration Visual Content",
     type |-> "context",
     path |-> ".opencode/context/core/workflows/design-iteration-visual-content.md",
     description |-> "Visual content guidelines for design iteration",
     tags |-> <<"workflows", "design", "visual">>,
     dependencies |-> <<>>,
     category |-> "standard"],
    [id |-> "design-iteration-best-practices",
     name |-> "Design Iteration Best Practices",
     type |-> "context",
     path |-> ".opencode/context/core/workflows/design-iteration-best-practices.md",
     description |-> "Best practices for design iteration workflows",
     tags |-> <<"workflows", "design", "best-practices">>,
     dependencies |-> <<>>,
     category |-> "standard"],
    [id |-> "external-libraries-workflow",
     name |-> "External Libraries Workflow",
     type |-> "context",
     path |-> ".opencode/context/core/workflows/external-libraries-workflow.md",
     description |-> "Workflow for managing external library dependencies",
     tags |-> <<"workflows", "external", "libraries">>,
     dependencies |-> <<>>,
     category |-> "standard"],
    [id |-> "external-libraries-scenarios",
     name |-> "External Libraries Scenarios",
     type |-> "context",
     path |-> ".opencode/context/core/workflows/external-libraries-scenarios.md",
     description |-> "Common scenarios for external library integration",
     tags |-> <<"workflows", "external", "libraries", "scenarios">>,
     dependencies |-> <<>>,
     category |-> "standard"],
    [id |-> "external-libraries-faq",
     name |-> "External Libraries FAQ",
     type |-> "context",
     path |-> ".opencode/context/core/workflows/external-libraries-faq.md",
     description |-> "Frequently asked questions about external libraries",
     tags |-> <<"workflows", "external", "libraries", "faq">>,
     dependencies |-> <<>>,
     category |-> "standard"],
    [id |-> "adding-agent-basics",
     name |-> "Adding Agent - Basics",
     type |-> "context",
     path |-> ".opencode/context/openagents-repo/guides/adding-agent-basics.md",
     description |-> "Basic guide for adding new agents",
     tags |-> <<"guides", "agents", "basics">>,
     dependencies |-> <<>>,
     category |-> "standard"],
    [id |-> "adding-agent-testing",
     name |-> "Adding Agent - Testing",
     type |-> "context",
     path |-> ".opencode/context/openagents-repo/guides/adding-agent-testing.md",
     description |-> "Testing guide for new agents",
     tags |-> <<"guides", "agents", "testing">>,
     dependencies |-> <<>>,
     category |-> "standard"],
    [id |-> "adding-skill-basics",
     name |-> "Adding Skill - Basics",
     type |-> "context",
     path |-> ".opencode/context/openagents-repo/guides/adding-skill-basics.md",
     description |-> "Basic guide for adding new skills",
     tags |-> <<"guides", "skills", "basics">>,
     dependencies |-> <<>>,
     category |-> "standard"],
    [id |-> "adding-skill-implementation",
     name |-> "Adding Skill - Implementation",
     type |-> "context",
     path |-> ".opencode/context/openagents-repo/guides/adding-skill-implementation.md",
     description |-> "Implementation guide for new skills",
     tags |-> <<"guides", "skills", "implementation">>,
     dependencies |-> <<>>,
     category |-> "standard"],
    [id |-> "adding-skill-example",
     name |-> "Adding Skill - Example",
     type |-> "context",
     path |-> ".opencode/context/openagents-repo/guides/adding-skill-example.md",
     description |-> "Example of adding a new skill",
     tags |-> <<"guides", "skills", "examples">>,
     dependencies |-> <<>>,
     category |-> "standard"],
    [id |-> "navigation-design-basics",
     name |-> "Navigation Design Basics",
     type |-> "context",
     path |-> ".opencode/context/core/context-system/guides/navigation-design-basics.md",
     description |-> "Basics of designing navigation files",
     tags |-> <<"context-system", "navigation", "design">>,
     dependencies |-> <<>>,
     category |-> "standard"],
    [id |-> "navigation-templates",
     name |-> "Navigation Templates",
     type |-> "context",
     path |-> ".opencode/context/core/context-system/guides/navigation-templates.md",
     description |-> "Templates for navigation files",
     tags |-> <<"context-system", "navigation", "templates">>,
     dependencies |-> <<>>,
     category |-> "standard"],
    [id |-> "animation-basics",
     name |-> "Animation Basics",
     type |-> "context",
     path |-> ".opencode/context/ui/web/animation-basics.md",
     description |-> "Basic animation patterns and guidelines",
     tags |-> <<"ui", "web", "animation">>,
     dependencies |-> <<>>,
     category |-> "standard"],
    [id |-> "animation-advanced",
     name |-> "Animation Advanced",
     type |-> "context",
     path |-> ".opencode/context/ui/web/animation-advanced.md",
     description |-> "Advanced animation patterns and techniques",
     tags |-> <<"ui", "web", "animation">>,
     dependencies |-> <<>>,
     category |-> "standard"],
    [id |-> "animation-components",
     name |-> "Animation Components",
     type |-> "context",
     path |-> ".opencode/context/ui/web/animation-components.md",
     description |-> "Component-specific animation patterns",
     tags |-> <<"ui", "web", "animation", "components">>,
     dependencies |-> <<>>,
     category |-> "standard"],
    [id |-> "animation-forms",
     name |-> "Animation Forms",
     type |-> "context",
     path |-> ".opencode/context/ui/web/animation-forms.md",
     description |-> "Animation patterns for forms",
     tags |-> <<"ui", "web", "animation", "forms">>,
     dependencies |-> <<>>,
     category |-> "standard"],
    [id |-> "animation-chat",
     name |-> "Animation Chat",
     type |-> "context",
     path |-> ".opencode/context/ui/web/animation-chat.md",
     description |-> "Animation patterns for chat interfaces",
     tags |-> <<"ui", "web", "animation", "chat">>,
     dependencies |-> <<>>,
     category |-> "standard"],
    [id |-> "animation-loading",
     name |-> "Animation Loading",
     type |-> "context",
     path |-> ".opencode/context/ui/web/animation-loading.md",
     description |-> "Loading animation patterns",
     tags |-> <<"ui", "web", "animation", "loading">>,
     dependencies |-> <<>>,
     category |-> "standard"]
  >>

\* Mutant: the file-existence check is left out.
add_split_file_entries_unverified(reg, existing) ==
  LET comps == IF "contexts" \in DOMAIN reg.components THEN reg.components
               ELSE SetKey(reg.components, "contexts", <<>>)
      existing_ids == {c.id : c \in Range(comps.contexts)}
  IN Outcome(TRUE, SetKey(reg, "components", SetKey(comps, "contexts",
       comps.contexts \o SelectSeq(new_entries, LAMBDA e : e.id \notin existing_ids))))

\* Mutant: the existing-id check is left out.
add_split_file_entries_no_dedup(reg, existing) ==
  LET comps == IF "contexts" \in DOMAIN reg.components THEN reg.components
               ELSE SetKey(reg.components, "contexts", <<>>)
  IN Outcome(TRUE, SetKey(reg, "components", SetKey(comps, "contexts",
       comps.contexts \o SelectSeq(new_entries, LAMBDA e : e.path \in existing))))

\* Mutant: new entries are inserted in front of the existing ones.
add_split_file_entries_prepend(reg, existing) ==
  LET comps == IF "contexts" \in DOMAIN reg.components THEN reg.components
               ELSE SetKey(reg.components, "contexts", <<>>)
      existing_ids == {c.id : c \in Range(comps.contexts)}
  IN Outcome(TRUE, SetKey(reg, "components", SetKey(comps, "contexts",
       SelectSeq(new_entries, LAMBDA e : e.path \in existing /\ e.id \notin existing_ids)
         \o comps.contexts)))

\* `existing` is the set of candidate paths for which (REPO_ROOT / path).exists().
add_split_file_entries(reg, existing) ==
  LET verified_entries == SelectSeq(new_entries, LAMBDA e : e.path \in existing)
      \* if 'contexts' not in registry['components']: ... = []
      comps == IF "contexts" \in DOMAIN reg.components THEN reg.components
               ELSE SetKey(reg.components, "contexts", <<>>)
      reg1 == SetKey(reg, "components", comps)
  IN IF \E i \in 1..Len(comps.contexts) : "id" \notin DOMAIN comps.contexts[i]
     THEN Outcome(FALSE, reg1)     \* c['id'] raises KeyError building existing_ids
     ELSE LET existing_ids == {c.id : c \in Range(comps.contexts)}
              added == SelectSeq(verified_entries, LAMBDA e : e.id \notin existing_ids)
          IN Outcome(TRUE, SetKey(reg, "components",
                       SetKey(comps, "contexts", comps.contexts \o added)))

(***************************************************************************)
(* update_dependencies                                                     *)
(***************************************************************************)
\* Mutant: every agent is rewritten, not only opencoder.
is_any_agent(agent) == TRUE

\* if agent['id'] == 'opencoder'
is_target_agent(agent) == agent.id = "opencoder"

\* Mutant: the agent's dependencies are left as they are.
agent_deps_unchanged(deps) == deps

\* The list comprehension assigned to agent['dependencies'].
agent_deps(deps) ==
  [i \in 1..Len(deps) |-> str_replace(deps[i], "context:workflows-delegation",
                                               "context:task-delegation-basics")]

\* The three list comprehensions assigned to ctx['dependencies'], in order.
ctx_deps(deps) ==
  LET d1 == [i \in 1..Len(deps) |-> str_replace(deps[i], "context:external-libraries",
                                         "context:external-libraries-workflow")]
      d2 == [i \in 1..Len(d1) |-> str_replace(d1[i], "context:adding-agent",
                                       "context:adding-agent-basics")]
  IN [i \in 1..Len(d2) |-> str_replace(d2[i], "context:adding-skill",
                                       "context:adding-skill-basics")]

\* The loop over registry['components'].get('agents', []): agents are
\* visited in order and updated in place; agent['id'] or
\* agent['dependencies'] raises KeyError at the first agent lacking the key,
\* leaving the agents before it updated.
update_agents(agents) ==
  LET raises(i) == \/ "id" \notin DOMAIN agents[i]
                   \/ /\ is_target_agent(agents[i])
                      /\ "dependencies" \notin DOMAIN agents[i]
      firstBad == IF \E i \in 1..Len(agents) : raises(i)
                  THEN CHOOSE i \in 1..Len(agents) :
                         raises(i) /\ \A j \in 1..(i - 1) : ~raises(j)
                  ELSE Len(agents) + 1
  IN [ok |-> firstBad > Len(agents),
      agents |-> [i \in 1..Len(agents) |->
                    IF i < firstBad /\ is_target_agent(agents[i])
                    THEN SetKey(agents[i], "dependencies",
                                agent_deps(agents[i].dependencies))
                    ELSE agents[i]]]

\* Mutant: context entries without a dependencies field are dropped.
update_contexts_drop(contexts) ==
  LET kept == SelectSeq(contexts, LAMBDA ctx : "dependencies" \in DOMAIN ctx)
  IN [i \in 1..Len(kept) |->
        SetKey(kept[i], "dependencies", ctx_deps(kept[i].dependencies))]

\* The loop over registry['components'].get('contexts', []).
update_contexts(contexts) ==
  [i \in 1..Len(contexts) |->
     IF "dependencies" \in DOMAIN contexts[i]
     THEN SetKey(contexts[i], "dependencies", ctx_deps(contexts[i].dependencies))
     ELSE contexts[i]]

update_dependencies(reg) ==
  LET comps == reg.components
      a == update_agents(Get(comps, "agents", <<>>))
      comps1 == IF "agents" \in DOMAIN comps THEN SetKey(comps, "agents", a.agents)
                ELSE comps
      comps2 == IF "contexts" \in DOMAIN comps1
                THEN SetKey(comps1, "contexts", update_contexts(comps1.contexts))
                ELSE comps1
  IN IF a.ok THEN Outcome(TRUE, SetKey(reg, "components", comps2))
     ELSE Outcome(FALSE, SetKey(reg, "components", comps1))

(***************************************************************************)
(* Inputs: the registry documents and file sets the script is run on.      *)
(***************************************************************************)
\* The value of a variable that holds nothing yet.
Null == [unset |-> TRUE]

Path(i) == new_entries[i].path
AllPaths == {Path(i) : i \in 1..Len(new_entries)}

\* Which candidate files exist: none, the first, one of each rewritten
\* family, all.
FileSets ==
  { {},
    {".opencode/context/core/workflows/task-delegation-basics.md"},
    {".opencode/context/core/workflows/task-delegation-basics.md",
     ".opencode/context/core/workflows/external-libraries-workflow.md",
     ".opencode/context/openagents-repo/guides/adding-agent-basics.md"},
    AllPaths }

\* Entries a registry may already hold in `contexts`.
ContextPool ==
  { [id |-> "workflows-delegation",
     path |-> ".opencode/context/core/workflows/delegation.md",
     dependencies |-> <<>>],
    [id |-> "task-delegation-basics",
     name |-> "Delegation basics (hand-written)",
     path |-> ".opencode/context/core/workflows/task-delegation-basics.md",
     dependencies |-> <<"context:external-libraries">>],
    [id |-> "custom",
     dependencies |-> <<"context:adding-agent-extra",
                        "context:adding-skill context:adding-skill",
                        "context:core">>],
    [id |-> "notes", path |-> "docs/notes.md"],
    [name |-> "entry without id"] }

\* Entries a registry may hold in `agents`.
AgentPool ==
  { [id |-> "opencoder", dependencies |-> <<"context:workflows-delegation">>],
    [id |-> "reviewer", dependencies |-> <<"context:workflows-delegation">>],
    [id |-> "opencoder", name |-> "agent without dependencies"],
    [name |-> "agent without id"] }

\* A category this script never touches; one entry carries a dead id.
Skills == << [id |-> "workflows-delegation", dependencies |-> <<"context:adding-agent">>] >>

SeqsUpTo(S, n) == UNION {[1..k -> S] : k \in 0..n}

\* The `components` objects: contexts and agents may each be absent.
ComponentsPool ==
  LET lists == {p \in SeqsUpTo(ContextPool, MaxEntries) \X SeqsUpTo(AgentPool, MaxEntries) :
                  Len(p[1]) + Len(p[2]) <= MaxEntries}
  IN {[contexts |-> p[1], agents |-> p[2], skills |-> Skills] : p \in lists}
     \cup {[agents |-> a, skills |-> Skills] : a \in SeqsUpTo(AgentPool, 1)}
     \cup {[contexts |-> c, skills |-> Skills] : c \in SeqsUpTo(ContextPool, 1)}

\* The documents registry.json may hold.
Documents ==
  {[version |-> "2.0.0", components |-> c] : c \in ComponentsPool}
    \cup {[version |-> "2.0.0"]}

DiskStates ==
  {[state |-> "ok", doc |-> d] : d \in Documents}
    \cup {[state |-> "missing", doc |-> Null], [state |-> "malformed", doc |-> Null]}

(***************************************************************************)
(* main                                                                    *)
(***************************************************************************)
Init ==
  /\ disk \in DiskStates
  /\ files \in FileSets
  /\ registry = Null
  /\ pc = "load"
  /\ failed = "none"
  /\ writes = 0
  /\ run = 1
  /\ disk0 = disk
  /\ input = Null
  /\ pre = Null
  /\ prevDisk = [state |-> "none", doc |-> Null]

\* registry = load_registry(): open() raises when the file is missing,
\* json.load raises when it is malformed.
Load ==
  /\ pc = "load"
  /\ IF disk.state = "ok"
     THEN /\ registry' = disk.doc
          /\ input' = disk.doc
          /\ pc' = "loaded"
          /\ failed' = failed
     ELSE /\ pc' = "error"
          /\ failed' = "load"
          /\ UNCHANGED <<registry, input>>
  /\ UNCHANGED <<disk, files, writes, run, disk0, pre, prevDisk>>

\* print(f"... {len(registry['components'].get('contexts', []))} contexts")
PrintLoaded ==
  /\ pc = "loaded"
  /\ IF "components" \in DOMAIN registry
     THEN pc' = "remove" /\ failed' = failed
     ELSE pc' = "error" /\ failed' = "print_loaded"
  /\ UNCHANGED <<disk, files, registry, writes, run, disk0, input, pre, prevDisk>>

\* One fix step of main: registry = step(registry).
FixStep(here, next, out) ==
  /\ pc = here
  /\ pre' = registry
  /\ registry' = out.reg
  /\ IF out.ok THEN pc' = next /\ failed' = failed
               ELSE pc' = "error" /\ failed' = here
  /\ UNCHANGED <<files, writes, run, disk0, input, prevDisk>>

\* Mutant: the registry is saved right after the removal pass.
RemoveDeadThenSave ==
  /\ FixStep("remove", "add", remove_dead_references(registry))
  /\ disk' = [state |-> "ok", doc |-> registry']

RemoveDead ==
  /\ FixStep("remove", "add", remove_dead_references(registry))
  /\ disk' = disk

AddSplit ==
  /\ FixStep("add", "update", add_split_file_entries(registry, files))
  /\ disk' = disk

UpdateDeps ==
  /\ FixStep("update", "save", update_dependencies(registry))
  /\ disk' = disk

\* save_registry(registry): open(..., 'w') truncates the file and json.dump
\* writes it; an I/O error on the way leaves a truncated document behind.
Save ==
  /\ pc = "save"
  /\ writes' = writes + 1
  /\ \E io_ok \in BOOLEAN :
       IF io_ok
       THEN /\ disk' = [state |-> "ok", doc |-> registry]
            /\ pc' = "report"
            /\ failed' = failed
       ELSE /\ disk' = [state |-> "malformed", doc |-> Null]
            /\ pc' = "error"
            /\ failed' = "save"
  /\ UNCHANGED <<files, registry, run, disk0, input, pre, prevDisk>>

\* The closing prints of main.
Report ==
  /\ pc = "report"
  /\ pc' = "done"
  /\ UNCHANGED <<disk, files, registry, failed, writes, run, disk0, input, pre, prevDisk>>

\* The script is invoked again on the file it left behind.
Rerun ==
  /\ pc = "done"
  /\ run < MaxRuns
  /\ run' = run + 1
  /\ pc' = "load"
  /\ prevDisk' = disk
  /\ disk0' = disk
  /\ registry' = Null
  /\ input' = Null
  /\ pre' = Null
  /\ writes' = 0
  /\ UNCHANGED <<disk, files, failed>>

Next ==
  \/ Load
  \/ PrintLoaded
  \/ RemoveDead
  \/ AddSplit
  \/ UpdateDeps
  \/ Save
  \/ Report
  \/ Rerun

Spec == Init /\ [][Next]_vars

(***************************************************************************)
(* Vocabulary of the properties.                                           *)
(***************************************************************************)
Contexts(reg) == Get(reg.components, "contexts", <<>>)
Agents(reg) == Get(reg.components, "agents", <<>>)
Ids(s) == {s[i].id : i \in 1..Len(s)}
DeadIds == Range(dead_entries)
Candidates == 1..Len(new_entries)
DistinctIds(s) == \A i, j \in 1..Len(s) : s[i].id = s[j].id => i = j
WithId(s, id) == SelectSeq(s, LAMBDA c : c.id = id)
Occurrences(s, e) == Cardinality({i \in 1..Len(s) : s[i] = e})

\* An entry without its dependencies list.
StripDeps(e) == [k \in (DOMAIN e) \ {"dependencies"} |-> e[k]]
StrippedOccurrences(s, e) ==
  Cardinality({i \in 1..Len(s) : /\ StripDeps(s[i]) = StripDeps(e)
                                 /\ ("dependencies" \in DOMAIN s[i])
                                      = ("dependencies" \in DOMAIN e)})

\* The run has saved its result and finished.
Finished == pc = "done"
\* The position right after add_split_file_entries returned (pre is the
\* registry it was given).
AfterAdd == pc = "update"
\* The position right after update_dependencies returned (pre is the
\* registry it was given).
AfterUpdate == pc = "save"

\* t is s with every occurrence of old replaced by new, stated position by
\* position (occurrences of the rules' old strings cannot overlap).
ReplacesAll(s, old, new, t) ==
  LET occ == {i \in 1..(Len(s) - Len(old) + 1) : SubSeq(s, i, i + Len(old) - 1) = old}
      d == Len(new) - Len(old)
      shift(p) == Cardinality({i \in occ : i < p}) * d
      covered(p) == \E i \in occ : i <= p /\ p < i + Len(old)
  IN /\ Len(t) = Len(s) + Cardinality(occ) * d
     /\ \A i \in occ : SubSeq(t, i + shift(i), i + shift(i) + Len(new) - 1) = new
     /\ \A p \in 1..Len(s) :
          ~covered(p) => SubSeq(t, p + shift(p), p + shift(p)) = SubSeq(s, p, p)

(***************************************************************************)
(* C1: idempotence.  A second run on the output of the first run, with the *)
(* same existing files, leaves registry.json as the first run left it.     *)
(***************************************************************************)
C1_Idempotent ==
  (Finished /\ run = 2) => disk = prevDisk

(***************************************************************************)
(* C2: existence gate.  As claimed: after a full run contexts holds no     *)
(* entry with the id of a candidate whose file does not exist, whatever    *)
(* contexts held before.                                                   *)
(***************************************************************************)
C2_ExistenceGate_Original ==
  Finished =>
    \A i \in Candidates :
      Path(i) \notin files => new_entries[i].id \notin Ids(Contexts(disk.doc))

\* C2 as amended: after a full run contexts holds no entry with the id of a
\* candidate whose file does not exist, provided contexts held no entry
\* with that id before the run.
C2_ExistenceGate ==
  Finished =>
    \A i \in Candidates :
      (Path(i) \notin files /\ new_entries[i].id \notin Ids(Contexts(input)))
        => new_entries[i].id \notin Ids(Contexts(disk.doc))

C2_Witness ==
  /\ Finished
  /\ Len(Contexts(disk.doc)) > Len(Contexts(input))
  /\ \E i \in Candidates :
       Path(i) \notin files /\ new_entries[i].id \notin Ids(Contexts(input))

(***************************************************************************)
(* C3: all-or-nothing persistence.  A run opens registry.json for writing  *)
(* at most once, and only after load and the three fix steps completed;    *)
(* when load, the components lookup or a fix step raises, the run ends in  *)
(* the error state with the file as it was before the run.                 *)
(***************************************************************************)
C3_AllOrNothing ==
  /\ writes <= 1
  /\ writes = 1 => (pc \in {"report", "done"} \/ (pc = "error" /\ failed = "save"))
  /\ pc \in {"load", "loaded", "remove", "add", "update", "save"} => disk = disk0
  /\ (pc = "error" /\ failed # "save") => (disk = disk0 /\ writes = 0)

\* update_dependencies raised after changing the registry in memory.
C3_Witness ==
  /\ pc = "error"
  /\ failed = "update"
  /\ registry # pre
  /\ disk = disk0

(***************************************************************************)
(* C4: denylist completeness.  After the removal pass, and so after the    *)
(* insertion pass, the rewrite pass and the full run, contexts holds no    *)
(* entry whose id is one of the 13 dead ids; no candidate id is dead.      *)
(***************************************************************************)
C4_DenylistComplete ==
  /\ Cardinality(DeadIds) = 13
  /\ \A i \in Candidates : new_entries[i].id \notin DeadIds
  /\ pc \in {"add", "update", "save", "report", "done"}
       => Ids(Contexts(registry)) \cap DeadIds = {}
  /\ Finished => Ids(Contexts(disk.doc)) \cap DeadIds = {}

C4_Witness ==
  /\ Finished
  /\ Ids(Contexts(input)) \cap DeadIds # {}
  /\ Len(Contexts(disk.doc)) > 0

(***************************************************************************)
(* C5: append-only for existing entries.  As claimed: the contexts entries *)
(* present before the run whose id is not dead, compared as whole entries  *)
(* (dependencies included), are a sub-multiset of the entries after it.    *)
(***************************************************************************)
C5_AppendOnly_Original ==
  Finished =>
    \A e \in Range(Contexts(input)) :
      e.id \notin DeadIds
        => Occurrences(Contexts(input), e) <= Occurrences(Contexts(disk.doc), e)

\* C5 as amended: the same, with entries compared on every field other
\* than the contents of their dependencies list.
C5_AppendOnly ==
  Finished =>
    \A e \in Range(Contexts(input)) :
      e.id \notin DeadIds
        => StrippedOccurrences(Contexts(input), e)
             <= StrippedOccurrences(Contexts(disk.doc), e)

\* A surviving entry had its dependencies rewritten.
C5_Witness ==
  /\ Finished
  /\ \E e \in Range(Contexts(input)) :
       e.id \notin DeadIds /\ e \notin Range(Contexts(disk.doc))

(***************************************************************************)
(* C6: agent dependency rewrite.  As claimed: any agents entry whose       *)
(* dependencies are ["context:workflows-delegation"] has dependencies      *)
(* ["context:task-delegation-basics"] after a full run.                    *)
(***************************************************************************)
C6_AgentRewrite_Original ==
  Finished =>
    \A i \in 1..Len(Agents(input)) :
      Get(Agents(input)[i], "dependencies", <<>>) = <<"context:workflows-delegation">>
        => Agents(disk.doc)[i].dependencies = <<"context:task-delegation-basics">>

\* C6 as amended: the same for the agents entry whose id is opencoder.
C6_AgentRewrite ==
  Finished =>
    \A i \in 1..Len(Agents(input)) :
      (/\ Agents(input)[i].id = "opencoder"
       /\ Agents(input)[i].dependencies = <<"context:workflows-delegation">>)
        => /\ Len(Agents(disk.doc)) = Len(Agents(input))
           /\ Agents(disk.doc)[i].dependencies = <<"context:task-delegation-basics">>

C6_Witness ==
  /\ Finished
  /\ \E i \in 1..Len(Agents(input)) :
       /\ Agents(input)[i].id = "opencoder"
       /\ Agents(input)[i].dependencies = <<"context:workflows-delegation">>

\* The insertion scenario: a dead entry and a hand-written entry that has a
\* candidate's id; only that candidate's file exists.
C7_Scenario ==
  /\ Len(Contexts(input)) = 2
  /\ Contexts(input)[1].id = "workflows-delegation"
  /\ Contexts(input)[2].id = "task-delegation-basics"
  /\ files = {".opencode/context/core/workflows/task-delegation-basics.md"}

(***************************************************************************)
(* C7: no duplicates from insertion.  Pairwise distinct context ids stay   *)
(* pairwise distinct across add_split_file_entries; a verified candidate   *)
(* whose id is already present is not appended and the entry with that id  *)
(* is kept.  From contexts = [workflows-delegation,                        *)
(* task-delegation-basics] with only the task-delegation-basics file       *)
(* existing, the run ends with the single entry task-delegation-basics.    *)
(***************************************************************************)
C7_NoDuplicates ==
  /\ AfterAdd =>
       /\ DistinctIds(Contexts(pre)) => DistinctIds(Contexts(registry))
       /\ \A i \in Candidates :
            (Path(i) \in files /\ new_entries[i].id \in Ids(Contexts(pre)))
              => WithId(Contexts(registry), new_entries[i].id)
                   = WithId(Contexts(pre), new_entries[i].id)
  /\ (Finished /\ C7_Scenario) =>
       /\ Len(Contexts(disk.doc)) = 1
       /\ Contexts(disk.doc)[1].id = "task-delegation-basics"

C7_Witness ==
  Finished /\ C7_Scenario

(***************************************************************************)
(* C8: insertion frame and order.  add_split_file_entries leaves every     *)
(* other category as it was, keeps the contexts it was given as a prefix,  *)
(* and appends exactly the candidates whose file exists and whose id was   *)
(* not present, in their declared order.                                   *)
(***************************************************************************)
C8_InsertionFrame ==
  AfterAdd =>
    LET before == Contexts(pre)
        after == Contexts(registry)
        want == {i \in Candidates :
                   Path(i) \in files /\ new_entries[i].id \notin Ids(before)}
        nth(k) == CHOOSE i \in want : Cardinality({j \in want : j < i}) = k - 1
    IN /\ DOMAIN registry = DOMAIN pre
       /\ registry.version = pre.version
       /\ DOMAIN registry.components = (DOMAIN pre.components) \cup {"contexts"}
       /\ \A cat \in (DOMAIN pre.components) \ {"contexts"} :
            registry.components[cat] = pre.components[cat]
       /\ Len(after) = Len(before) + Cardinality(want)
       /\ SubSeq(after, 1, Len(before)) = before
       /\ \A k \in 1..Cardinality(want) : after[Len(before) + k] = new_entries[nth(k)]

\* Some candidates were appended behind existing entries, one was skipped
\* for its id and one for its missing file.
C8_Witness ==
  /\ AfterAdd
  /\ Len(Contexts(pre)) > 0
  /\ Len(Contexts(registry)) > Len(Contexts(pre)) + 1
  /\ \E i \in Candidates : Path(i) \in files /\ new_entries[i].id \in Ids(Contexts(pre))
  /\ \E i \in Candidates : Path(i) \notin files

\* t is s after the three context rules, each a replace-all of the string
\* the rule before it produced.
C9_Chain(s, t) ==
  LET t1 == str_replace(s, "context:external-libraries",
                           "context:external-libraries-workflow")
      t2 == str_replace(t1, "context:adding-agent", "context:adding-agent-basics")
  IN /\ ReplacesAll(s, "context:external-libraries",
                       "context:external-libraries-workflow", t1)
     /\ ReplacesAll(t1, "context:adding-agent", "context:adding-agent-basics", t2)
     /\ ReplacesAll(t2, "context:adding-skill", "context:adding-skill-basics", t)

(***************************************************************************)
(* C9: substring rewriting in contexts.  update_dependencies applies the   *)
(* three rules in order to every dependency string of every contexts       *)
(* entry with a dependencies field, replacing every occurrence of the old  *)
(* substring; context:adding-agent-extra becomes                           *)
(* context:adding-agent-basics-extra; lists keep length and order.         *)
(***************************************************************************)
C9_SubstringRewriting ==
  AfterUpdate =>
    /\ Len(Contexts(registry)) = Len(Contexts(pre))
    /\ \A i \in 1..Len(Contexts(pre)) :
         LET b == Contexts(pre)[i]
             a == Contexts(registry)[i]
         IN "dependencies" \in DOMAIN b =>
              /\ "dependencies" \in DOMAIN a
              /\ Len(a.dependencies) = Len(b.dependencies)
              /\ \A j \in 1..Len(b.dependencies) :
                   /\ C9_Chain(b.dependencies[j], a.dependencies[j])
                   /\ b.dependencies[j] = "context:adding-agent-extra"
                        => a.dependencies[j] = "context:adding-agent-basics-extra"

C9_Witness ==
  /\ AfterUpdate
  /\ \E i \in 1..Len(Contexts(pre)) :
       /\ "dependencies" \in DOMAIN Contexts(pre)[i]
       /\ \E j \in 1..Len(Contexts(pre)[i].dependencies) :
            /\ Contexts(pre)[i].dependencies[j] = "context:adding-agent-extra"
            /\ Contexts(registry)[i].dependencies[j] = "context:adding-agent-basics-extra"

(***************************************************************************)
(* C10: rewrite-pass frame.  update_dependencies adds, removes and         *)
(* reorders no entry and changes no field other than dependencies; the     *)
(* only entries it changes are agents entries with id opencoder and        *)
(* contexts entries that have a dependencies field.  This holds too when   *)
(* the pass raises part-way.                                               *)
(***************************************************************************)
C10_RewriteFrame ==
  (AfterUpdate \/ (pc = "error" /\ failed = "update")) =>
    /\ DOMAIN registry = DOMAIN pre
    /\ registry.version = pre.version
    /\ DOMAIN registry.components = DOMAIN pre.components
    /\ \A cat \in DOMAIN pre.components :
         LET b == pre.components[cat]
             a == registry.components[cat]
         IN /\ Len(a) = Len(b)
            /\ \A i \in 1..Len(b) :
                 /\ DOMAIN a[i] = DOMAIN b[i]
                 /\ \A f \in (DOMAIN b[i]) \ {"dependencies"} : a[i][f] = b[i][f]
                 /\ a[i] # b[i] =>
                      \/ cat = "agents" /\ b[i].id = "opencoder"
                      \/ cat = "contexts" /\ "dependencies" \in DOMAIN b[i]

\* The pass changed something while an agent other than opencoder carried
\* the dependency the agent rule rewrites.
C10_Witness ==
  /\ AfterUpdate
  /\ registry # pre
  /\ \E i \in 1..Len(Agents(pre)) :
       /\ Agents(pre)[i].id # "opencoder"
       /\ Agents(pre)[i].dependencies = <<"context:workflows-delegation">>
====
